---- MODULE Spec2Model ----
(***************************************************************************)
(* A model of lopper/assists/isospec.py: the resolver that turns an        *)
(* isolation specification into a domain tree.                             *)
(*                                                                         *)
(* Python values are modelled as follows.                                  *)
(*   - a str that the code searches, parses or formats is a sequence of    *)
(*     one-character strings ("APU2" is <<"A","P","U","2">>); a str that   *)
(*     is only copied is a TLA+ string;                                    *)
(*   - a dict is a function whose DOMAIN is the set of its keys, so that   *)
(*     d["k"] raising KeyError is "k" \notin DOMAIN d;                     *)
(*   - a list is a sequence;                                               *)
(*   - a call that can raise returns a record with a field st that is      *)
(*     "ok" or "raise".                                                    *)
(***************************************************************************)
EXTENDS Integers, Sequences, FiniteSets, TLC

VARIABLES
    pc,          \* position of the run in isospec_domain (or of a single call)
    sdt,         \* the hardware description tree (read-only input)
    json_tree,   \* the isolation specification tree (read-only input)
    args,        \* the arguments of the function under study (function runs)
    ret,         \* what the function under study returned (function runs)
    device_dict, \* the device catalog of isospec_domain
    domains_list,\* the domain nodes of the output tree, in tree order
    domain_node, \* the index in domains_list of the node domain_node is bound to
    gdevice,     \* whether the local gdevice of isospec_domain is bound
    idx,         \* the index of the loop the run is in
    built,       \* history: domains_list when the subsystem loop ended
    log,         \* history: catalog, resolve, increment, append, write events
    written      \* the trees handed to sdt.write, in order

run == <<device_dict, domains_list, domain_node, gdevice, idx, built, log, written>>

vars == <<pc, sdt, json_tree, args, ret, run>>

\* no run of isospec_domain is under way
IdleRun ==
    /\ device_dict = <<>>
    /\ domains_list = <<>>
    /\ domain_node = 0
    /\ gdevice = FALSE
    /\ idx = 0
    /\ built = <<>>
    /\ log = <<>>
    /\ written = <<>>

(***************************************************************************)
(* Strings                                                                 *)
(***************************************************************************)
Has(d, k) == k \in DOMAIN d

EmptyDict == [k \in {} |-> TRUE]

\* the dict with the pairs of d and the key k bound to v
With(d, k, v) == [x \in DOMAIN d \cup {k} |-> IF x = k THEN v ELSE d[x]]

DecChars == <<"0", "1", "2", "3", "4", "5", "6", "7", "8", "9">>

HexChars == <<"0", "1", "2", "3", "4", "5", "6", "7", "8", "9",
              "a", "b", "c", "d", "e", "f">>

HexUpper == <<"0", "1", "2", "3", "4", "5", "6", "7", "8", "9",
              "A", "B", "C", "D", "E", "F">>

IsDigit(c) == \E i \in 1..10 : DecChars[i] = c

DigitVal(c) == (CHOOSE i \in 1..10 : DecChars[i] = c) - 1

IsHexChar(c) == \E i \in 1..16 : HexChars[i] = c \/ HexUpper[i] = c

HexCharVal(c) == (CHOOSE i \in 1..16 : HexChars[i] = c \/ HexUpper[i] = c) - 1

\* int(s): the decimal value of a string of digits
RECURSIVE ParseDecFrom(_, _)
ParseDecFrom(s, acc) ==
    IF s = <<>> THEN acc
    ELSE ParseDecFrom(Tail(s), acc * 10 + DigitVal(Head(s)))

ParseDec(s) == ParseDecFrom(s, 0)

\* int(s, 16): an optional 0x / 0X prefix, then hex digits of either case
HexBody(s) ==
    IF Len(s) >= 2 /\ s[1] = "0" /\ s[2] \in {"x", "X"}
    THEN SubSeq(s, 3, Len(s)) ELSE s

IsHexString(s) ==
    /\ HexBody(s) # <<>>
    /\ \A i \in 1..Len(HexBody(s)) : IsHexChar(HexBody(s)[i])

RECURSIVE ParseHexFrom(_, _)
ParseHexFrom(s, acc) ==
    IF s = <<>> THEN acc
    ELSE ParseHexFrom(Tail(s), acc * 16 + HexCharVal(Head(s)))

ParseHex(s) == ParseHexFrom(HexBody(s), 0)

\* hex(n) for n >= 0: "0x" and the lower-case digits, no leading zeros
RECURSIVE HexDigits(_)
HexDigits(n) ==
    IF n < 16 THEN <<HexChars[n + 1]>>
    ELSE HexDigits(n \div 16) \o <<HexChars[(n % 16) + 1]>>

Hex(n) == <<"0", "x">> \o HexDigits(n)

\* re.search( lit, s ) for a pattern without metacharacters
Contains(s, lit) ==
    \E i \in 0..(Len(s) - Len(lit)) : SubSeq(s, i + 1, i + Len(lit)) = lit

\* re.match( r'.*?(\d+)', s ).group(1): the lazy prefix stops at the first
\* digit and the greedy group takes the whole run; <<>> stands for no match
FirstDigits(s) ==
    IF \A i \in 1..Len(s) : ~IsDigit(s[i]) THEN <<>>
    ELSE LET b == CHOOSE i \in 1..Len(s) :
                      IsDigit(s[i]) /\ \A j \in 1..(i - 1) : ~IsDigit(s[j])
             e == CHOOSE j \in b..Len(s) :
                      /\ \A k \in b..j : IsDigit(s[k])
                      /\ (j = Len(s) \/ ~IsDigit(s[j + 1]))
         IN  SubSeq(s, b, e)

check_bit_set(n, k) == (n \div (2 ^ k)) % 2 = 1

set_bit(value, bit) == IF check_bit_set(value, bit) THEN value ELSE value + 2 ^ bit

(***************************************************************************)
(* isospec_process_cpus                                                    *)
(***************************************************************************)
\* The patterns "APU*" and "RPU*" under re.search: U* matches the empty
\* string, so the pattern is found exactly when "AP" (resp. "RP") is.
iso_cpus_to_device_tree_map ==
    << [pattern |-> <<"A", "P">>, compatible |-> "arm,cortex-a72", el |-> 3],
       [pattern |-> <<"R", "P">>, compatible |-> "arm,cortex-r5",  el |-> 0] >>

\* el: None is the falsy 0 above; the code only tests its truth
NoMap == [pattern |-> <<>>, compatible |-> "", el |-> 0]

\* lines 101-104: the last matching entry of the map wins; {} when none does
CpuMapOf(cpu_name) ==
    LET hits == { i \in 1..Len(iso_cpus_to_device_tree_map) :
                    Contains(cpu_name, iso_cpus_to_device_tree_map[i].pattern) }
    IN  IF hits = {} THEN NoMap
        ELSE iso_cpus_to_device_tree_map[CHOOSE i \in hits : \A j \in hits : j <= i]

Unbound == "<unbound>"

\* hw.tree.cnodes( compat ): the nodes whose compatible matches, in tree order
cnodes(hw, compat) == SelectSeq(hw.cpus, LAMBDA n : n.compatible = compat)

CpuAt == <<"c", "p", "u", "@">>

\* lines 140-146
RECURSIVE MaskLoop(_, _, _)
MaskLoop(nodes, cpu_number, cluster_mask) ==
    IF nodes = <<>> THEN cluster_mask
    ELSE MaskLoop(Tail(nodes), cpu_number,
                  IF Contains(Head(nodes).name, CpuAt \o cpu_number)
                  THEN set_bit(cluster_mask, ParseDec(cpu_number))
                  ELSE cluster_mask)

ClusterMask(compatible_nodes, cpu_number) ==
    IF cpu_number # <<>> THEN MaskLoop(compatible_nodes, cpu_number, 0)
    ELSE 15

\* lines 151-172
CpuFlags(cpus_info) == IF Has(cpus_info, "flags") THEN cpus_info.flags ELSE EmptyDict

SecureOf(cpu_flags) == IF Has(cpu_flags, "secure") THEN cpu_flags.secure ELSE FALSE

ModeMask(cpu_flags, cpu_map) ==
    IF Has(cpu_flags, "mode")
    THEN IF cpu_flags.mode = "el" THEN set_bit(set_bit(0, 0), 1) ELSE 0
    ELSE IF cpu_map # NoMap THEN cpu_map.el ELSE 0

\* lines 174-189
CpuEntry(cpu_name, cluster_name, cluster_mask, secure, mode_mask) ==
    [ dev       |-> cluster_name,
      spec_name |-> cpu_name,
      cluster   |-> cluster_name,
      cpumask   |-> Hex(cluster_mask),
      mode      |-> IF mode_mask # 0
                    THEN [secure |-> secure, el |-> Hex(mode_mask)]
                    ELSE [secure |-> secure] ]

\* The loop of lines 98-193. device_tree_compat is assigned only when the name
\* is recognized and is never reset, so it is Unbound until the first
\* recognized name and keeps the previous name's value afterwards.
RECURSIVE CpusLoop(_, _, _, _, _)
CpusLoop(cpus_info, hw, k, device_tree_compat, cpus_list) ==
    IF k > Len(cpus_info.SMIDs) THEN [st |-> "ok", none |-> FALSE, val |-> cpus_list]
    ELSE
      LET cpu_name == cpus_info.SMIDs[k]
          cpu_map  == CpuMapOf(cpu_name)
          compat   == IF cpu_map # NoMap THEN cpu_map.compatible ELSE device_tree_compat
      IN  IF compat = Unbound
          THEN [st |-> "raise", none |-> FALSE, val |-> <<>>]   \* line 113, UnboundLocalError
          ELSE
            LET cpu_number       == FirstDigits(cpu_name)
                compatible_nodes == cnodes(hw, compat)
            IN  IF compatible_nodes = <<>>
                THEN CpusLoop(cpus_info, hw, k + 1, compat, cpus_list)
                ELSE IF ~Has(compatible_nodes[1], "parent")
                THEN [st |-> "ok", none |-> TRUE, val |-> <<>>]  \* line 131, return None
                ELSE
                  LET cpu_cluster  == compatible_nodes[1].parent
                      cluster_name == IF cpu_cluster.label # "" THEN cpu_cluster.label
                                      ELSE cpu_cluster.name
                      cluster_mask == ClusterMask(compatible_nodes, cpu_number)
                      cpu_flags    == CpuFlags(cpus_info)
                      cpu_entry    == CpuEntry(cpu_name, cluster_name, cluster_mask,
                                               SecureOf(cpu_flags),
                                               ModeMask(cpu_flags, cpu_map))
                  IN  CpusLoop(cpus_info, hw, k + 1, compat, Append(cpus_list, cpu_entry))

isospec_process_cpus(cpus_info, hw) ==
    IF ~Has(cpus_info, "SMIDs") THEN [st |-> "raise", none |-> FALSE, val |-> <<>>]
    ELSE CpusLoop(cpus_info, hw, 1, Unbound, <<>>)

\* lines 468-469 and 558: what a call contributes to the caller's cpu_list
\* (nothing when the call raised, or returned None and extend() raised)
Contributed(r) == IF r.st = "ok" /\ ~r.none THEN r.val ELSE <<>>

(***************************************************************************)
(* isospec_process_memory                                                  *)
(***************************************************************************)
\* The patterns "DDR0" and "OCM.*" under re.search: .* matches the empty
\* string, so "OCM.*" is found exactly when "OCM" is.
iso_memory_device_map ==
    << [pattern |-> <<"D", "D", "R", "0">>, type |-> "memory", dest |-> "memory@.*"],
       [pattern |-> <<"O", "C", "M">>,      type |-> "sram",   dest |-> ""] >>

\* lines 247-250 and 258-261: the last matching entry of the map wins
MemMapHits(name) ==
    { i \in 1..Len(iso_memory_device_map) : Contains(name, iso_memory_device_map[i].pattern) }

MemMapLast(name) ==
    iso_memory_device_map[CHOOSE i \in MemMapHits(name) : \A j \in MemMapHits(name) : j <= i]

isospec_memory_type(name) == IF MemMapHits(name) = {} THEN "" ELSE MemMapLast(name).type

isospec_memory_dest(name) == IF MemMapHits(name) = {} THEN "" ELSE MemMapLast(name).dest

\* sdt.tree.nodes( "memory@.*" ): the nodes whose path matches, in tree order
tree_nodes(hw, memory_dest) == IF memory_dest = "memory@.*" THEN hw.mems ELSE <<>>

\* sdt.tree.addr_node( address ): the node at exactly that address, or none
AddrHits(hw, address) ==
    { i \in 1..Len(hw.devs) : IsHexString(address) /\ hw.devs[i].addr = ParseHex(address) }

HasAddrNode(hw, address) == AddrHits(hw, address) # {}

addr_node(hw, address) ==
    hw.devs[CHOOSE i \in AddrHits(hw, address) : \A j \in AddrHits(hw, address) : i <= j]

\* A cell of a reg property is CellBits wide. The code's cells are 32 bits wide
\* and Python integers are unbounded; the model narrows the cell so that the
\* two-cell values stay within the integers TLC has, and never wraps a sum.
CellBits == 4

CellRadix == 2 ^ CellBits

\* lopper_lib.chunks( l, n ): consecutive slices of n items, the last one shorter
RECURSIVE chunks(_, _)
chunks(l, n) ==
    IF l = <<>> THEN <<>>
    ELSE IF Len(l) <= n THEN <<l>>
    ELSE <<SubSeq(l, 1, n)>> \o chunks(SubSeq(l, n + 1, Len(l)), n)

\* encode_byte_array then int.from_bytes( ..., "big" ): the cells, most
\* significant first; no cell at all is 0
RECURSIVE CellsValueFrom(_, _)
CellsValueFrom(cells, acc) ==
    IF cells = <<>> THEN acc
    ELSE CellsValueFrom(Tail(cells), acc * CellRadix + Head(cells))

CellsValue(cells) == CellsValueFrom(cells, 0)

address_cells == 2

size_cells == 2

ChunkStart(reg_chunk) ==
    CellsValue(SubSeq(reg_chunk, 1, IF Len(reg_chunk) < address_cells
                                    THEN Len(reg_chunk) ELSE address_cells))

ChunkSize(reg_chunk) == CellsValue(SubSeq(reg_chunk, address_cells + 1, Len(reg_chunk)))

\* line 387
InRange(dest_start, start, size) == dest_start >= start /\ dest_start <= start + size

MemEntry(name, start, size) ==
    [dev |-> name, spec_name |-> name, start |-> start, size |-> size]

\* lines 356-395: the entries of one node's reg property
RECURSIVE RegLoop(_, _, _, _)
RegLoop(reg_chunks, name, dest_start, memory_list) ==
    IF reg_chunks = <<>> THEN memory_list
    ELSE LET start == ChunkStart(Head(reg_chunks))
             size  == ChunkSize(Head(reg_chunks))
         IN  RegLoop(Tail(reg_chunks), name, dest_start,
                     IF InRange(dest_start, start, size)
                     THEN Append(memory_list, MemEntry(name, Hex(start), Hex(size)))
                     ELSE memory_list)

\* lines 342-398. Line 343 formats n['device_type'] for the log before the
\* try of line 344 begins, so a candidate without that property raises out
\* of the function; inside the try a missing reg is swallowed.
RECURSIVE MemNodesLoop(_, _, _, _)
MemNodesLoop(possible_mem_nodes, name, dest_start, memory_list) ==
    IF possible_mem_nodes = <<>> THEN [st |-> "ok", val |-> memory_list]
    ELSE LET n == Head(possible_mem_nodes)
         IN  IF ~Has(n, "device_type") THEN [st |-> "raise", val |-> <<>>]
             ELSE MemNodesLoop(Tail(possible_mem_nodes), name, dest_start,
                    IF "memory" \in { n.device_type[i] : i \in 1..Len(n.device_type) }
                       /\ Has(n, "reg")
                    THEN RegLoop(chunks(n.reg, address_cells + size_cells),
                                 name, dest_start, memory_list)
                    ELSE memory_list)

\* lines 276-288: the first classification; "exit" is os._exit(1) at line 288
FirstMemoryType(name, dest) ==
    IF Has(dest, "mem") THEN "memory"
    ELSE IF isospec_memory_type(name) = "sram" THEN "exit"
    ELSE isospec_memory_type(name)

FirstMemoryDest(name, dest) ==
    IF Has(dest, "mem") THEN "memory@.*" ELSE isospec_memory_dest(name)

\* lines 290-310
PossibleMemNodes(name, dest, hw) ==
    IF FirstMemoryType(name, dest) = "memory"
    THEN tree_nodes(hw, FirstMemoryDest(name, dest)) ELSE <<>>

\* lines 314-316: without candidate nodes the type is taken from the name again
FinalMemoryType(name, dest, hw) ==
    IF PossibleMemNodes(name, dest, hw) = <<>> THEN isospec_memory_type(name)
    ELSE FirstMemoryType(name, dest)

\* lines 404-424
SramEntries(name, dest, hw) ==
    IF HasAddrNode(hw, dest.addr) THEN <<>>
    ELSE <<MemEntry(name, dest.addr, dest.size)>>

isospec_process_memory(name, dest, hw) ==
    IF FirstMemoryType(name, dest) = "exit" THEN [st |-> "exit", val |-> <<>>]
    ELSE IF ~Has(dest, "addr") \/ ~IsHexString(dest.addr) \/ ~Has(dest, "size")
    THEN [st |-> "raise", val |-> <<>>]                      \* lines 323-324
    ELSE IF FinalMemoryType(name, dest, hw) = "memory"
    THEN MemNodesLoop(PossibleMemNodes(name, dest, hw), name, ParseHex(dest.addr), <<>>)
    ELSE IF FinalMemoryType(name, dest, hw) = "sram"
    THEN [st |-> "ok", val |-> SramEntries(name, dest, hw)]
    ELSE [st |-> "ok", val |-> <<>>]

(***************************************************************************)
(* isospec_process_access and its helpers                                  *)
(*                                                                         *)
(* The specification tree json_tree is [cells, subsystems] with an         *)
(* optional key defaults: cells are the children of /design/cells, each a  *)
(* dict with an optional destinations list; subsystems are the children of *)
(* /design/subsystems; defaults is the access list of the subsystem named  *)
(* "default" under /default_settings/subsystems.                           *)
(***************************************************************************)
\* lines 203-211, a dict: the flags with a truthy value, each mapped to True
isospec_device_flags(defs) ==
    IF ~Has(defs, "flags") THEN EmptyDict
    ELSE [f \in { g \in DOMAIN defs.flags : defs.flags[g] } |-> TRUE]

\* lines 218-221: the properties of the children named flags, in order
RECURSIVE FlagProps(_)
FlagProps(children) ==
    IF children = <<>> THEN <<>>
    ELSE (IF Head(children).name = "flags" THEN Head(children).props ELSE <<>>)
         \o FlagProps(Tail(children))

\* lines 212-233, defs a tree node without a flags property: propval gives
\* the list [""], whose item has no attribute value and is passed over, and
\* the properties of the flags children follow it
NodeFlags(defs) ==
    LET flags == FlagProps(defs.children)
    IN  [f \in { flags[i].name : i \in { j \in 1..Len(flags) : flags[j].value # "" } } |-> TRUE]

\* lines 199-237 for a value of any shape: shape.kind is "dict" when
\* type(defs) == dict and "node" for a tree node; any other value has no
\* method propval and line 214 raises AttributeError
DeviceFlagsOf(shape) ==
    IF shape.kind = "dict" THEN [st |-> "ok", val |-> isospec_device_flags(shape.val)]
    ELSE IF shape.kind = "node" THEN [st |-> "ok", val |-> NodeFlags(shape.val)]
    ELSE [st |-> "raise", val |-> EmptyDict]

\* lines 61-75: the nodes with a destinations property, in tree order
destinations(jt) == SelectSeq(jt.cells, LAMBDA c : Has(c, "destinations"))

\* lines 634-637: the records of one node named destination, in order
NamedIn(dests, destination) == SelectSeq(dests, LAMBDA x : x.name = destination)

RECURSIVE DnodesLoop(_, _)
DnodesLoop(dnodes, destination) ==
    IF dnodes = <<>> THEN <<>>
    ELSE NamedIn(Head(dnodes).destinations, destination)
         \o DnodesLoop(Tail(dnodes), destination)

\* lines 611-649
RECURSIVE isospec_device_destination(_, _)
isospec_device_destination(destination_list, jt) ==
    IF destination_list = <<>> THEN <<>>
    ELSE DnodesLoop(destinations(jt), Head(destination_list))
         \o isospec_device_destination(Tail(destination_list), jt)

\* lines 597-607: the first entry of the default subsystem named device_name;
\* evaluating d["name"] on an entry without a name raises, which the handler
\* turns into None
DefaultHits(jt, device_name) ==
    { i \in 1..Len(jt.defaults) : jt.defaults[i].name = device_name }

HasDeviceDefaults(jt, device_name) ==
    /\ Has(jt, "defaults")
    /\ \A i \in 1..Len(jt.defaults) : Has(jt.defaults[i], "name")
    /\ DefaultHits(jt, device_name) # {}

isospec_device_defaults(device_name, jt) ==
    jt.defaults[CHOOSE i \in DefaultHits(jt, device_name) :
                    \A j \in DefaultHits(jt, device_name) : i <= j]

NoLists == [access |-> <<>>, cpus |-> <<>>, memory |-> <<>>, sram |-> <<>>]

AccessEntry(tnode, name, flag_mapping) ==
    [dev |-> tnode.name, spec_name |-> name, label |-> tnode.label, flags |-> flag_mapping]

\* lines 509-530: mem_found and memory_type of a destination without a node
MemFound(d) == Has(d, "mem") \/ MemMapHits(d.name) # {}

CallerMemoryType(d) ==
    IF Has(d, "mem") /\ isospec_memory_type(d.name) = "" THEN "memory"
    ELSE isospec_memory_type(d.name)

\* lines 485-556: the loop over the destinations of one device entry. The
\* lists are extended in place, so what was appended before a raise stays.
RECURSIVE DestsLoop(_, _, _, _)
DestsLoop(dests, flag_mapping, hw, lists) ==
    IF dests = <<>> THEN [st |-> "ok", lists |-> lists]
    ELSE
      LET d == Head(dests)
      IN  IF Has(d, "addr") /\ HasAddrNode(hw, d.addr)
          THEN DestsLoop(Tail(dests), flag_mapping, hw,
                         [lists EXCEPT !.access =
                             Append(@, AccessEntry(addr_node(hw, d.addr), d.name, flag_mapping))])
          ELSE IF ~MemFound(d)
          THEN DestsLoop(Tail(dests), flag_mapping, hw, lists)       \* line 556, warning
          ELSE
            LET ml == isospec_process_memory(d.name, d, hw)
            IN  IF ml.st # "ok" THEN [st |-> ml.st, lists |-> lists]
                ELSE DestsLoop(Tail(dests), flag_mapping, hw,
                        IF CallerMemoryType(d) = "memory"
                        THEN [lists EXCEPT !.memory = @ \o ml.val]
                        ELSE IF CallerMemoryType(d) = "sram"
                        THEN [lists EXCEPT !.sram = @ \o ml.val]
                        ELSE lists)

\* lines 445-455: the record the entry is read from; None is <<>> here
HasDefs(access, jt) ==
    ~Has(access, "same_as_default") \/ HasDeviceDefaults(jt, access.same_as_default)

DefsOf(access, jt) ==
    IF Has(access, "same_as_default")
    THEN isospec_device_defaults(access.same_as_default, jt)
    ELSE access

\* lines 444-559: one entry of the access list; the handler of line 558
\* swallows whatever the entry raises
AccessStep(access, hw, jt, lists) ==
    IF ~HasDefs(access, jt) THEN [st |-> "ok", lists |-> lists]
    ELSE
      LET defs        == DefsOf(access, jt)
          access_type == IF Has(defs, "type") THEN defs.type ELSE "device"
      IN  IF access_type = "cpu_list"
          THEN [st |-> "ok",
                lists |-> [lists EXCEPT !.cpus = @ \o Contributed(isospec_process_cpus(defs, hw))]]
          ELSE IF access_type = "device"
          THEN IF ~Has(defs, "destinations") \/ ~Has(defs, "name")
               THEN [st |-> "ok", lists |-> lists]
               ELSE LET r == DestsLoop(isospec_device_destination(defs.destinations, jt),
                                       isospec_device_flags(defs), hw, lists)
                    IN  [st |-> IF r.st = "exit" THEN "exit" ELSE "ok", lists |-> r.lists]
          ELSE [st |-> "ok", lists |-> lists]

RECURSIVE AccessLoop(_, _, _, _)
AccessLoop(access_node, hw, jt, lists) ==
    IF access_node = <<>> THEN [st |-> "ok", lists |-> lists]
    ELSE LET r == AccessStep(Head(access_node), hw, jt, lists)
         IN  IF r.st = "exit" THEN r
             ELSE AccessLoop(Tail(access_node), hw, jt, r.lists)

\* lines 430-561
isospec_process_access(access_node, hw, jt) == AccessLoop(access_node, hw, jt, NoLists)

(***************************************************************************)
(* device_collect                                                          *)
(*                                                                         *)
(* device_dict is a Python dict keyed by destination name. It is modelled  *)
(* as the sequence of its items [name, refcount, dest] in insertion order, *)
(* the order in which the dict is iterated.                                *)
(***************************************************************************)
DictKeys(dict) == { dict[i].name : i \in 1..Len(dict) }

DictIndex(dict, key) == CHOOSE i \in 1..Len(dict) : dict[i].name = key

\* dict[key] = value: a known key keeps its place, a new one goes last
DictSet(dict, key, value) ==
    IF key \in DictKeys(dict)
    THEN [dict EXCEPT ![DictIndex(dict, key)] = value]
    ELSE Append(dict, value)

\* device_collect without the branch of lines 748-765: memory is not collected
CollectDest_NodeidOnly(dict, dest) ==
    IF Has(dest, "nodeid")
    THEN DictSet(dict, dest.name, [name |-> dest.name, refcount |-> 0, dest |-> dest])
    ELSE dict

\* lines 741-770: a destination with a nodeid, or else with a mem flag, is
\* stored with refcount 0; any other destination is passed over
CollectDest(dict, dest) ==
    IF Has(dest, "nodeid") \/ Has(dest, "mem")
    THEN DictSet(dict, dest.name, [name |-> dest.name, refcount |-> 0, dest |-> dest])
    ELSE dict

RECURSIVE CollectDests(_, _)
CollectDests(dict, dests) ==
    IF dests = <<>> THEN dict
    ELSE CollectDests(CollectDest(dict, Head(dests)), Tail(dests))

\* lines 730-772: a cell without a destinations property is passed over
RECURSIVE CollectCells(_, _)
CollectCells(dict, cells) ==
    IF cells = <<>> THEN dict
    ELSE CollectCells(IF Has(Head(cells), "destinations")
                      THEN CollectDests(dict, Head(cells).destinations)
                      ELSE dict,
                      Tail(cells))

\* lines 721-774
device_collect(jt) == IF ~Has(jt, "cells") THEN <<>> ELSE CollectCells(<<>>, jt.cells)

(***************************************************************************)
(* process_domain and the passes of isospec_domain                         *)
(*                                                                         *)
(* A domain node is a dict with name, parent, compatible and id and the    *)
(* optional properties access, cpus, memory and sram. A property is the    *)
(* json text of a list; it is modelled as the record [json |-> list].      *)
(***************************************************************************)
\* json.dumps and json.loads of a list of entries
dumps(list) == [json |-> list]

loads(prop) == prop.json

\* lines 668-681
domains_tree_add_domain(domain_name, parent_domain, id) ==
    [name |-> domain_name, parent |-> parent_domain,
     compatible |-> "openamp,domain-v1", id |-> id]

\* lines 695-705 with every list tested like the other three
AttachLists_NonEmpty(domain, lists) ==
    LET a == IF lists.access # <<>> THEN With(domain, "access", dumps(lists.access)) ELSE domain
        b == IF lists.cpus # <<>> THEN With(a, "cpus", dumps(lists.cpus)) ELSE a
        c == IF lists.memory # <<>> THEN With(b, "memory", dumps(lists.memory)) ELSE b
    IN  IF lists.sram # <<>> THEN With(c, "sram", dumps(lists.sram)) ELSE c

\* lines 695-705: cpus, memory and sram are attached when not empty, access
\* whenever the access list was processed
AttachLists(domain, lists) ==
    LET a == With(domain, "access", dumps(lists.access))
        b == IF lists.cpus # <<>> THEN With(a, "cpus", dumps(lists.cpus)) ELSE a
        c == IF lists.memory # <<>> THEN With(b, "memory", dumps(lists.memory)) ELSE b
    IN  IF lists.sram # <<>> THEN With(c, "sram", dumps(lists.sram)) ELSE c

\* lines 702-711: the node after the lists of the access list are attached
Attached(domain, r) ==
    IF r.st = "exit" THEN [st |-> "exit", node |-> domain]
    ELSE [st |-> "ok", node |-> AttachLists(domain, r.lists)]

\* lines 683-711: a subsystem without an access list leaves the node as it is
process_domain(domain, iso_node, jt, hw) ==
    IF ~Has(iso_node, "access") THEN [st |-> "ok", node |-> domain]
    ELSE Attached(domain, isospec_process_access(iso_node.access, hw, jt))

\* lines 877-884: the sub-domains of one subsystem, each with its own id or
\* else the subsystem's
RECURSIVE SubDomainsLoop(_, _, _, _, _)
SubDomainsLoop(sub_domains, iso_node, jt, hw, made) ==
    IF sub_domains = <<>> THEN [st |-> "ok", nodes |-> made]
    ELSE LET s         == Head(sub_domains)
             domain_id == IF Has(s, "id") THEN s.id ELSE iso_node.id
             r         == process_domain(
                              domains_tree_add_domain(s.name, iso_node.name, domain_id),
                              s, jt, hw)
         IN  IF r.st = "exit" THEN [st |-> "exit", nodes |-> made]
             ELSE SubDomainsLoop(Tail(sub_domains), iso_node, jt, hw, Append(made, r.node))

\* lines 874-887: the nodes after the top node of a subsystem
WithSubDomains(top, iso_node, jt, hw) ==
    IF top.st = "exit" THEN [st |-> "exit", nodes |-> <<>>]
    ELSE IF ~Has(iso_node, "domains") THEN [st |-> "ok", nodes |-> <<top.node>>]
    ELSE LET r == SubDomainsLoop(iso_node.domains, iso_node, jt, hw, <<>>)
         IN  [st |-> r.st, nodes |-> <<top.node>> \o r.nodes]

\* lines 862-887: one subsystem; the nodes it adds to the tree, in tree order
SubsystemNodes(iso_node, jt, hw) ==
    IF ~Has(iso_node, "id") THEN [st |-> "raise", nodes |-> <<>>]
    ELSE WithSubDomains(process_domain(domains_tree_add_domain(iso_node.name, "", iso_node.id),
                                       iso_node, jt, hw),
                        iso_node, jt, hw)

\* lines 927-939: the entries of one list. A spec_name that is not a key
\* raises inside the try; the handler's message formats gdevice, which is
\* bound only once some earlier lookup has succeeded.
RECURSIVE CountEntries(_, _, _)
CountEntries(domain_json, dict, bound) ==
    IF domain_json = <<>> THEN [st |-> "ok", dict |-> dict, bound |-> bound]
    ELSE LET dev == Head(domain_json)
         IN  IF dev.spec_name \in DictKeys(dict)
             THEN CountEntries(Tail(domain_json),
                               [dict EXCEPT ![DictIndex(dict, dev.spec_name)].refcount = @ + 1],
                               TRUE)
             ELSE IF ~bound THEN [st |-> "raise", dict |-> dict, bound |-> bound]
             ELSE CountEntries(Tail(domain_json), dict, bound)

\* lines 918-939: the three lists of the node the counting pass reads
RECURSIVE CountTypes(_, _, _, _)
CountTypes(types, node, dict, bound) ==
    IF types = <<>> THEN [st |-> "ok", dict |-> dict, bound |-> bound]
    ELSE IF ~Has(node, Head(types)) THEN CountTypes(Tail(types), node, dict, bound)
    ELSE LET r == CountEntries(loads(node[Head(types)]), dict, bound)
         IN  IF r.st = "raise" THEN r
             ELSE CountTypes(Tail(types), node, r.dict, r.bound)

\* line 921 reads domain_node, the node of the last subsystem of the loop of
\* line 862, in every round of the loop over domains_list
CountedNode(list, domain, last) == list[last]

\* lines 955-969
IsUnrefedDevice(device, hw) == Has(device.dest, "addr") /\ HasAddrNode(hw, device.dest.addr)

unrefed_device_entry(device, hw) ==
    AccessEntry(addr_node(hw, device.dest.addr), device.dest.name, EmptyDict)

\* lines 984-993
IsUnrefedMemory(device, hw) ==
    /\ ~IsUnrefedDevice(device, hw)
    /\ Has(device.dest, "mem") /\ Has(device.dest, "addr") /\ Has(device.dest, "size")

unrefed_memory_entry(device) ==
    MemEntry(device.dest.name, device.dest.addr, device.dest.size)

\* lines 1005-1013
AppendMemory(domain, entry) ==
    With(domain, "memory",
         dumps(Append(IF Has(domain, "memory") THEN loads(domain.memory) ELSE <<>>, entry)))

\* lines 1001-1003 without the load of the list that is there
AppendAccess_Replace(domain, entry) == With(domain, "access", dumps(<<entry>>))

\* lines 999-1003: domain["access"] raises KeyError on a node without it
AppendAccess(domain, entry) == With(domain, "access", dumps(Append(loads(domain.access), entry)))

\* the loop of line 998 leaving after its first round
BroadcastLoop_FirstOnly(list, k, device, hw) ==
    IF k > Len(list) THEN [st |-> "ok", list |-> list]
    ELSE IF IsUnrefedDevice(device, hw)
    THEN IF ~Has(list[k], "access") THEN [st |-> "raise", list |-> list]
         ELSE [st |-> "ok",
               list |-> [list EXCEPT ![k] = AppendAccess(@, unrefed_device_entry(device, hw))]]
    ELSE IF IsUnrefedMemory(device, hw)
    THEN [st |-> "ok", list |-> [list EXCEPT ![k] = AppendMemory(@, unrefed_memory_entry(device))]]
    ELSE [st |-> "ok", list |-> list]

\* lines 998-1013: the domains in order, up to the first one that raises
RECURSIVE BroadcastLoop(_, _, _, _)
BroadcastLoop(list, k, device, hw) ==
    IF k > Len(list) THEN [st |-> "ok", list |-> list]
    ELSE IF IsUnrefedDevice(device, hw)
    THEN IF ~Has(list[k], "access") THEN [st |-> "raise", list |-> list]
         ELSE BroadcastLoop([list EXCEPT ![k] = AppendAccess(@, unrefed_device_entry(device, hw))],
                            k + 1, device, hw)
    ELSE IF IsUnrefedMemory(device, hw)
    THEN BroadcastLoop([list EXCEPT ![k] = AppendMemory(@, unrefed_memory_entry(device))],
                       k + 1, device, hw)
    ELSE [st |-> "ok", list |-> list]

\* lines 944-1013: one item of device_dict
BroadcastDevice(list, device, hw) ==
    IF device.refcount = 0 THEN BroadcastLoop(list, 1, device, hw)
    ELSE [st |-> "ok", list |-> list]

(***************************************************************************)
(* isospec_domain, one action for each pass or round of a loop             *)
(***************************************************************************)
\* lines 839-847 going on whether or not the path resolved
LoadSpec_Unchecked ==
    /\ pc = "load"
    /\ pc' = "collect"
    /\ UNCHANGED <<sdt, json_tree, args, ret, run>>

\* lines 839-851: args is the path of the specification and whether it
\* resolves. A path that does not resolve raises FileNotFoundError, which is
\* logged; line 846 then reads iso_file_abs, which was never bound, and the
\* UnboundLocalError leaves isospec_domain. json_tree is the tree of the file.
LoadSpec ==
    /\ pc = "load"
    /\ pc' = IF args.resolves THEN "collect" ELSE "crashed"
    /\ UNCHANGED <<sdt, json_tree, args, ret, run>>

\* line 857
DeviceCollect ==
    /\ pc = "collect"
    /\ device_dict' = device_collect(json_tree)
    /\ log' = Append(log, "catalog")
    /\ idx' = 1
    /\ pc' = IF json_tree.subsystems = <<>> THEN "gather" ELSE "resolve"
    /\ UNCHANGED <<sdt, json_tree, args, ret, domains_list, domain_node, gdevice, built, written>>

\* lines 862-887: what one round leaves behind, r being the nodes it made
Resolved(r) ==
    /\ domains_list' = domains_list \o r.nodes
    /\ domain_node' = IF r.st = "ok" THEN Len(domains_list) + 1 ELSE domain_node
    /\ log' = log \o [i \in 1..Len(r.nodes) |-> "resolve"]
    /\ pc' = IF r.st = "exit" THEN "exited"
             ELSE IF r.st = "raise" THEN "crashed"
             ELSE IF idx < Len(json_tree.subsystems) THEN "resolve"
             ELSE "gather"

\* lines 862-887, one round
ResolveSubsystem ==
    /\ pc = "resolve"
    /\ Resolved(SubsystemNodes(json_tree.subsystems[idx], json_tree, sdt))
    /\ idx' = idx + 1
    /\ UNCHANGED <<sdt, json_tree, args, ret, device_dict, gdevice, built, written>>

\* lines 889-900
GatherDomains ==
    /\ pc = "gather"
    /\ domains_list' = SelectSeq(domains_list, LAMBDA d : d.compatible = "openamp,domain-v1")
    /\ built' = domains_list'
    /\ idx' = 1
    /\ pc' = IF domains_list' # <<>> THEN "count"
             ELSE IF device_dict # <<>> THEN "broadcast"
             ELSE "write"
    /\ UNCHANGED <<sdt, json_tree, args, ret, device_dict, domain_node, gdevice, log, written>>

\* lines 917-939, one round of the loop over domains_list
CountDomain ==
    /\ pc = "count"
    /\ LET r == CountTypes(<<"access", "memory", "sram">>,
                           CountedNode(domains_list, idx, domain_node),
                           device_dict, gdevice)
       IN  /\ device_dict' = r.dict
           /\ gdevice' = r.bound
           /\ log' = IF r.dict # device_dict THEN Append(log, "increment") ELSE log
           /\ pc' = IF r.st = "raise" THEN "crashed"
                    ELSE IF idx < Len(domains_list) THEN "count"
                    ELSE IF device_dict # <<>> THEN "broadcast"
                    ELSE "write"
           /\ idx' = IF r.st = "ok" /\ idx < Len(domains_list) THEN idx + 1 ELSE 1
    /\ UNCHANGED <<sdt, json_tree, args, ret, domains_list, domain_node, built, written>>

\* lines 944-1013, one item of device_dict
BroadcastUnreferenced ==
    /\ pc = "broadcast"
    /\ LET r == BroadcastDevice(domains_list, device_dict[idx], sdt)
       IN  /\ domains_list' = r.list
           /\ log' = IF r.list # domains_list THEN Append(log, "append") ELSE log
           /\ pc' = IF r.st = "raise" THEN "crashed"
                    ELSE IF idx < Len(device_dict) THEN "broadcast"
                    ELSE "write"
    /\ idx' = idx + 1
    /\ UNCHANGED <<sdt, json_tree, args, ret, device_dict, domain_node, gdevice, built, written>>

\* the write of line 1021 placed before the loop of line 944
WriteDomains_BeforeBroadcast ==
    /\ pc = "write"
    /\ written' = Append(written, domains_list)
    /\ log' = Append(log, "write")
    /\ idx' = 1
    /\ pc' = IF written = <<>> /\ device_dict # <<>> THEN "broadcast" ELSE "done"
    /\ UNCHANGED <<sdt, json_tree, args, ret, device_dict, domains_list, domain_node,
                   gdevice, built>>

\* line 1021
WriteDomains ==
    /\ pc = "write"
    /\ written' = Append(written, domains_list)
    /\ log' = Append(log, "write")
    /\ pc' = "done"
    /\ UNCHANGED <<sdt, json_tree, args, ret, device_dict, domains_list, domain_node,
                   gdevice, idx, built>>

Next ==
    \/ LoadSpec
    \/ DeviceCollect
    \/ ResolveSubsystem
    \/ GatherDomains
    \/ CountDomain
    \/ BroadcastUnreferenced
    \/ WriteDomains

(***************************************************************************)
(* Runs of isospec_process_cpus alone                                      *)
(***************************************************************************)
MaxSMIDs == 2

\* the sequences over S of length at most n
RECURSIVE SeqsUpTo(_, _)
SeqsUpTo(S, n) ==
    IF n = 0 THEN {<<>>}
    ELSE LET shorter == SeqsUpTo(S, n - 1)
         IN  shorter \cup { Append(q, x) : q \in shorter, x \in S }

\* the subsequence of seq at the indices in S, in order
RECURSIVE PickFrom(_, _, _)
PickFrom(seq, S, k) ==
    IF k > Len(seq) THEN <<>>
    ELSE (IF k \in S THEN <<seq[k]>> ELSE <<>>) \o PickFrom(seq, S, k + 1)

SubSeqsOf(seq) == { PickFrom(seq, S, 1) : S \in SUBSET (1..Len(seq)) }

ApuCluster == [name |-> "cpus-a72", label |-> "apu"]
RpuCluster == [name |-> "cpus-r5", label |-> ""]

CpuNodeUniverse ==
    << [name |-> <<"c","p","u","@","0">>, compatible |-> "arm,cortex-a72", parent |-> ApuCluster],
       [name |-> <<"c","p","u","@","1">>, compatible |-> "arm,cortex-a72", parent |-> ApuCluster],
       [name |-> <<"c","p","u","@","1","0","0">>, compatible |-> "arm,cortex-a72", parent |-> ApuCluster],
       [name |-> <<"c","p","u","@","0">>, compatible |-> "arm,cortex-r5"],
       [name |-> <<"c","p","u","@","1">>, compatible |-> "arm,cortex-r5", parent |-> RpuCluster] >>

SmidNames ==
    { <<"A","P","U">>, <<"A","P","U","0">>, <<"A","P","U","1">>, <<"A","P","U","2">>,
      <<"R","P","U","1">>, <<"X","P","U","1">> }

CpuFlagDicts ==
    { EmptyDict }
    \cup { [mode |-> m] : m \in {"el", "hyp"} }
    \cup { [secure |-> b] : b \in BOOLEAN }
    \cup { [mode |-> m, secure |-> b] : m \in {"el", "hyp"}, b \in BOOLEAN }

CpusInfos ==
    { [type |-> "cpu_list", SMIDs |-> q] : q \in SeqsUpTo(SmidNames, MaxSMIDs) }
    \cup { [type |-> "cpu_list", SMIDs |-> q, flags |-> f] :
             q \in SeqsUpTo(SmidNames, MaxSMIDs), f \in CpuFlagDicts }

NoSdt == [devs |-> <<>>, cpus |-> <<>>, mems |-> <<>>]

NoRet == [st |-> "none"]

NoJson == [cells |-> <<>>, subsystems |-> <<>>]

InitCpus ==
    /\ pc = "call"
    /\ IdleRun
    /\ args \in CpusInfos
    /\ sdt \in { [NoSdt EXCEPT !.cpus = c] : c \in SubSeqsOf(CpuNodeUniverse) }
    /\ ret = NoRet
    /\ json_tree = NoJson

CallProcessCpus ==
    /\ pc = "call"
    /\ pc' = "returned"
    /\ ret' = isospec_process_cpus(args, sdt)
    /\ UNCHANGED <<sdt, json_tree, args, run>>

NextCpus == CallProcessCpus

SpecCpus == InitCpus /\ [][NextCpus]_vars

(***************************************************************************)
(* Runs of isospec_process_memory alone                                    *)
(***************************************************************************)
N_DDR0 == <<"D", "D", "R", "0">>
N_OCM0 == <<"O", "C", "M", "0">>
N_uart0 == <<"u", "a", "r", "t", "0">>

\* reg tuples: [0x04, 0x08], [0x08, 0x10] and [0x10, 0x12], ends included
RegA == <<0, 4, 0, 4>>
RegB == <<0, 8, 0, 8>>
RegC == <<1, 0, 0, 2>>

MemNodeUniverse ==
    << [name |-> "memory@4",  device_type |-> <<"memory">>, reg |-> RegA \o RegB],
       [name |-> "memory@10", device_type |-> <<"memory">>, reg |-> RegC],
       [name |-> "memory@8",  device_type |-> <<"reserved">>, reg |-> RegB],
       [name |-> "memory@20", device_type |-> <<"memory">>],
       [name |-> "memory@9",  device_type |-> <<"memory">>, reg |-> <<0, 9>>],
       [name |-> "memory@30", reg |-> RegA] >>

MemAddrs ==
    { <<"0", "x", "3">>, <<"0", "x", "4">>, <<"0", "x", "8">>, <<"0", "x", "9">>,
      <<"0", "x", "A">>, <<"0", "x", "1", "0">>, <<"0", "x", "1", "2">>,
      <<"0", "X", "1", "3">> }

MemSizes == { 4096 }

\* every dict that has the pairs of d and, for each key of opt, either
\* nothing or one of the values opt offers for it
RECURSIVE Optional(_, _)
Optional(d, opt) ==
    IF DOMAIN opt = {} THEN {d}
    ELSE LET k    == CHOOSE x \in DOMAIN opt : TRUE
             rest == Optional(d, [x \in DOMAIN opt \ {k} |-> opt[x]])
         IN  rest \cup { With(r, k, v) : r \in rest, v \in opt[k] }

MemDests ==
    UNION { Optional([name |-> n], [addr |-> MemAddrs, size |-> MemSizes, mem |-> {TRUE}]) :
            n \in {N_DDR0, N_OCM0, N_uart0} }

OcmNode == [name |-> "ocm@12", label |-> "ocm", addr |-> 18]

InitMemory ==
    /\ pc = "call"
    /\ IdleRun
    /\ args \in MemDests
    /\ sdt \in { [NoSdt EXCEPT !.mems = q, !.devs = v] :
                    q \in SubSeqsOf(MemNodeUniverse), v \in {<<>>, <<OcmNode>>} }
    /\ ret = NoRet
    /\ json_tree = NoJson

CallProcessMemory ==
    /\ pc = "call"
    /\ pc' = "returned"
    /\ ret' = isospec_process_memory(args.name, args, sdt)
    /\ UNCHANGED <<sdt, json_tree, args, run>>

NextMemory == CallProcessMemory

SpecMemory == InitMemory /\ [][NextMemory]_vars

\* the decoded (start, size) pairs of a candidate node, in order; none for a
\* node that is not of device_type memory or has no reg
DecodedPairs(n) ==
    IF Has(n, "device_type") /\ Has(n, "reg")
       /\ \E i \in 1..Len(n.device_type) : n.device_type[i] = "memory"
    THEN LET c == chunks(n.reg, address_cells + size_cells)
         IN  [i \in 1..Len(c) |-> <<ChunkStart(c[i]), ChunkSize(c[i])>>]
    ELSE <<>>

RECURSIVE AllPairs(_)
AllPairs(candidates) ==
    IF candidates = <<>> THEN <<>>
    ELSE DecodedPairs(Head(candidates)) \o AllPairs(Tail(candidates))

\* one entry for each pair whose range [start, start+size] holds the address a
SpecifiedMemEntries(name, a, candidates) ==
    LET hit(p) == p[1] <= a /\ a <= p[1] + p[2]
        hits   == SelectSeq(AllPairs(candidates), hit)
    IN  [i \in 1..Len(hits) |-> MemEntry(name, Hex(hits[i][1]), Hex(hits[i][2]))]

\* section 4.5: a mem flag, or a name the pattern map gives the kind memory
KindMemory(dest) == Has(dest, "mem") \/ isospec_memory_type(dest.name) = "memory"

\* C8: for a destination of kind memory with an address and a size the call
\* returns exactly one entry per decoded pair, of a candidate of device_type
\* memory, whose range [start, start+size] holds the address, and nothing else.
C8_MemoryContainment ==
    (pc = "returned" /\ KindMemory(args) /\ Has(args, "addr") /\ Has(args, "size")) =>
        /\ ret.st = "ok"
        /\ ret.val = SpecifiedMemEntries(args.name, ParseHex(args.addr), sdt.mems)

(***************************************************************************)
(* Runs of isospec_process_access alone                                    *)
(***************************************************************************)
MaxDests == 2

N_gpio1 == <<"g", "p", "i", "o", "1">>
N_DDR0b == <<"D", "D", "R", "0", "b">>
N_lpd == <<"l", "p", "d">>
N_OCM1 == <<"O", "C", "M", "1">>

A_uart0 == <<"0", "x", "2", "0">>
A_gpio1 == <<"0", "x", "3", "0">>
A_DDR0 == <<"0", "x", "8">>
A_OCM0 == <<"0", "x", "1", "2">>

\* the destination records of the specification: a device with a node id, a
\* device without one, a memory range, two memory records with a missing
\* field, an sram range flagged mem and one that is not
D_uart0 == [name |-> N_uart0, addr |-> A_uart0, size |-> 4096, nodeid |-> 5]
D_gpio1 == [name |-> N_gpio1, addr |-> A_gpio1, size |-> 4096]
D_DDR0 == [name |-> N_DDR0, addr |-> A_DDR0, size |-> 4096, mem |-> TRUE]
D_DDR0b == [name |-> N_DDR0b, size |-> 4096, mem |-> TRUE]
D_lpd == [name |-> N_lpd, addr |-> A_DDR0, mem |-> TRUE]
D_OCM0 == [name |-> N_OCM0, addr |-> A_OCM0, size |-> 4096, mem |-> TRUE]
D_OCM1 == [name |-> N_OCM1, addr |-> A_OCM0, size |-> 4096]

AccessCell == [name |-> "cell0",
               destinations |-> <<D_uart0, D_gpio1, D_DDR0, D_DDR0b, D_lpd, D_OCM0, D_OCM1>>]

DestNames == {N_uart0, N_gpio1, N_DDR0, N_DDR0b, N_lpd, N_OCM0, N_OCM1}

UartNode == [name |-> "serial@20", label |-> "uart0", addr |-> 32]
GpioNode == [name |-> "gpio@30", label |-> "", addr |-> 48]

DeviceFlagDicts == { [requested |-> TRUE, secure |-> FALSE] }

DeviceEntries ==
    UNION { Optional([name |-> "dev", destinations |-> q], [flags |-> DeviceFlagDicts]) :
            q \in SeqsUpTo(DestNames, MaxDests) }

E_uart0 == [name |-> "serial", destinations |-> <<N_uart0>>]
E_cpus == [type |-> "cpu_list", name |-> "cpus", SMIDs |-> <<<<"A", "P", "U", "0">>>>]
E_same == [same_as_default |-> "serial"]

AccessSdts ==
    { [cpus |-> SubSeq(CpuNodeUniverse, 1, 1), devs |-> v, mems |-> q] :
        v \in SubSeqsOf(<<UartNode, GpioNode>>),
        q \in { <<>>, SubSeq(MemNodeUniverse, 1, 1), SubSeq(MemNodeUniverse, 2, 2),
                 SubSeq(MemNodeUniverse, 1, 1) \o SubSeq(MemNodeUniverse, 6, 6) } }

\* an entry of the default subsystem that is itself an indirection
E_again == [name |-> "serial", same_as_default |-> "other"]

AccessJsons ==
    { [cells |-> <<AccessCell>>, subsystems |-> <<>>] }
    \cup { [cells |-> <<AccessCell>>, subsystems |-> <<>>, defaults |-> q] :
             q \in { <<E_uart0>>, <<E_same, E_uart0>>, <<E_again, E_uart0>> } }

InitAccess ==
    /\ pc = "call"
    /\ IdleRun
    /\ args \in { pre \o <<e>> \o post :
                     pre \in {<<>>, <<E_cpus>>},
                     e \in DeviceEntries,
                     post \in {<<>>, <<E_uart0>>, <<E_same>>} }
    /\ sdt \in AccessSdts
    /\ json_tree \in AccessJsons
    /\ ret = NoRet

CallProcessAccess ==
    /\ pc = "call"
    /\ pc' = "returned"
    /\ ret' = isospec_process_access(args, sdt, json_tree)
    /\ UNCHANGED <<sdt, json_tree, args, run>>

NextAccess == CallProcessAccess

SpecAccess == InitAccess /\ [][NextAccess]_vars

\* every item of the list a is an item of the list b
ItemsWithin(a, b) == \A i \in 1..Len(a) : \E j \in 1..Len(b) : b[j] = a[i]

ListsWithin(a, b) ==
    /\ ItemsWithin(a.access, b.access)
    /\ ItemsWithin(a.memory, b.memory)
    /\ ItemsWithin(a.sram, b.sram)

\* the entry with the single destination d
Alone(access, d) == [access EXCEPT !.destinations = <<d>>]

\* C6: in a call that returns, whatever a destination contributes when its
\* entry names it alone is also contributed when the entry names it next to
\* other destinations, failing or malformed ones included, and whatever the
\* other entries of the list are.
C6_FailureContainment ==
    (pc = "returned" /\ ret.st = "ok") =>
        \A k \in 1..Len(args) :
            Has(args[k], "destinations") =>
                \A j \in 1..Len(args[k].destinations) :
                    LET alone == isospec_process_access(
                                     <<Alone(args[k], args[k].destinations[j])>>,
                                     sdt, json_tree)
                    IN  alone.st = "ok" => ListsWithin(alone.lists, ret.lists)

(***************************************************************************)
(* Runs of device_collect alone                                            *)
(***************************************************************************)
\* a record with a name and either marker, and one that has neither marker
\* nor a name
CollectRecords ==
    { [addr |-> A_gpio1] } \cup
    UNION { Optional([name |-> n, addr |-> A_uart0, size |-> 4096],
                     [nodeid |-> {5}, mem |-> {TRUE}]) : n \in {N_uart0, N_DDR0} }

CollectCells1 ==
    { [name |-> "cell0"] }
    \cup { [name |-> "cell0", destinations |-> q] : q \in SeqsUpTo(CollectRecords, MaxDests) }

CollectCells2 ==
    { [name |-> "cell1"],
      [name |-> "cell1", destinations |-> <<[name |-> N_uart0, addr |-> A_uart0]>>],
      [name |-> "cell1", destinations |-> <<D_DDR0, D_gpio1>>] }

InitCollect ==
    /\ pc = "call"
    /\ IdleRun
    /\ args = <<>>
    /\ sdt = NoSdt
    /\ json_tree \in
          { [subsystems |-> <<>>] }
          \cup { [cells |-> <<c>>, subsystems |-> <<>>] : c \in CollectCells1 }
          \cup { [cells |-> <<c, d>>, subsystems |-> <<>>] :
                   c \in CollectCells1, d \in CollectCells2 }
    /\ ret = NoRet

CallDeviceCollect ==
    /\ pc = "call"
    /\ pc' = "returned"
    /\ ret' = [st |-> "ok", val |-> device_collect(json_tree)]
    /\ UNCHANGED <<sdt, json_tree, args, run>>

NextCollect == CallDeviceCollect

SpecCollect == InitCollect /\ [][NextCollect]_vars

\* the destination records under the cells of /design/cells
CellRecords(jt) ==
    IF ~Has(jt, "cells") THEN {}
    ELSE UNION { { jt.cells[c].destinations[i] : i \in 1..Len(jt.cells[c].destinations) } :
                 c \in { x \in 1..Len(jt.cells) : Has(jt.cells[x], "destinations") } }

Eligible(dest) == Has(dest, "nodeid") \/ Has(dest, "mem")

MaxMore == 1

N_spi0 == <<"s", "p", "i", "0">>
N_i2c0 == <<"i", "2", "c", "0">>

A_spi0 == <<"0", "x", "5", "0">>
A_i2c0 == <<"0", "x", "6", "0">>

\* a catalog device, a second one, a device without a node id (resolvable but
\* not tracked), a memory range and a catalog device without a hardware node
D_gpio1n == [name |-> N_gpio1, addr |-> A_gpio1, size |-> 4096, nodeid |-> 6]
D_spi0 == [name |-> N_spi0, addr |-> A_spi0, size |-> 4096]
D_i2c0 == [name |-> N_i2c0, addr |-> A_i2c0, size |-> 4096, nodeid |-> 7]

RunRecords == <<D_uart0, D_gpio1n, D_spi0, D_DDR0, D_i2c0>>

SpiNode == [name |-> "spi@50", label |-> "spi0", addr |-> 80]

RunSdt == [cpus |-> SubSeq(CpuNodeUniverse, 1, 1),
           devs |-> <<UartNode, GpioNode, SpiNode>>,
           mems |-> SubSeq(MemNodeUniverse, 1, 1)]

E_gpio1 == [name |-> "gpio", destinations |-> <<N_gpio1>>, flags |-> [requested |-> TRUE]]
E_spi0 == [name |-> "spi", destinations |-> <<N_spi0>>]
E_DDR0 == [name |-> "ddr", destinations |-> <<N_DDR0>>]

AccessChoices ==
    { <<>>, <<E_uart0>>, <<E_gpio1>>, <<E_spi0>>, <<E_DDR0>>, <<E_spi0, E_uart0>>, <<E_cpus>> }

NestedChoices ==
    { <<[name |-> "sub", access |-> <<E_uart0>>]>>,
      <<[name |-> "sub", id |-> 9]>>,
      <<[name |-> "sub", access |-> <<E_uart0>>], [name |-> "sub2", id |-> 9, access |-> <<E_gpio1>>]>> }

SubsystemShapes == Optional(EmptyDict, [access |-> AccessChoices, domains |-> NestedChoices])

SmallShapes == { EmptyDict, [access |-> <<>>], [access |-> <<E_uart0>>] }

SubsystemNames == <<"default", "A", "B", "C", "D">>

\* the shapes as subsystems, named and numbered by position
Named(shapes) ==
    [i \in 1..Len(shapes) |-> With(With(shapes[i], "name", SubsystemNames[i]), "id", i)]

RunSubsystems ==
    { <<>> } \cup
    { Named(pre \o <<v>> \o post) :
        pre \in SeqsUpTo(SmallShapes, MaxMore),
        v \in SubsystemShapes,
        post \in { <<>>, <<[access |-> <<E_DDR0>>]>> } }

Init ==
    /\ pc = "load"
    /\ IdleRun
    /\ args \in { [isospec |-> "isospec.json", resolves |-> b] : b \in BOOLEAN }
    /\ ret = NoRet
    /\ sdt = RunSdt
    /\ json_tree \in
          { [cells |-> <<[name |-> "cell0", destinations |-> q]>>, subsystems |-> u] :
              q \in SubSeqsOf(RunRecords), u \in RunSubsystems }

Spec == Init /\ [][Next]_vars

\* the lists the counting pass reads
RefLists == <<"access", "memory", "sram">>

ListOf(domain, t) == IF Has(domain, t) THEN loads(domain[t]) ELSE <<>>

\* the (domain, list, position) triples of list whose entry has spec_name n
ReferencesTo(n, list) ==
    UNION { { <<k, t, i>> : i \in { j \in 1..Len(ListOf(list[k], RefLists[t])) :
                                     ListOf(list[k], RefLists[t])[j].spec_name = n } } :
            k \in 1..Len(list), t \in 1..Len(RefLists) }

\* the entries the broadcast pass appended to list t of domain k: built holds
\* the domains as they were resolved
BroadcastEntries(k, t) ==
    SubSeq(ListOf(domains_list[k], t), Len(ListOf(built[k], t)) + 1,
           Len(ListOf(domains_list[k], t)))

Count(list, n) == Cardinality({ i \in 1..Len(list) : list[i].spec_name = n })

\* C1: once the counting pass is over, the refcount of every catalog entry is
\* the number of entries with its spec_name over the access, memory and sram
\* lists of all the domains.
C1_RefcountConservation ==
    pc \in {"broadcast", "write", "done"} =>
        \A i \in 1..Len(device_dict) :
            device_dict[i].refcount = Cardinality(ReferencesTo(device_dict[i].name, built))

\* C3: once the broadcast pass is over, a catalog name that some domain's
\* resolved access, memory or sram list holds has no broadcast entry in any
\* list of any domain.
C3_OnlyUnclaimedBroadcast ==
    pc \in {"write", "done"} =>
        \A i \in 1..Len(device_dict) :
            ReferencesTo(device_dict[i].name, built) # {} =>
                \A k \in 1..Len(domains_list) : \A t \in 1..Len(RefLists) :
                    Count(BroadcastEntries(k, RefLists[t]), device_dict[i].name) = 0

\* a catalog entry the broadcast pass takes for a device: a hardware node at
\* its address
AsDevice(device) ==
    /\ Has(device.dest, "addr")
    /\ \E n \in 1..Len(sdt.devs) : sdt.devs[n].addr = ParseHex(device.dest.addr)

\* one it takes for memory: no such node, and mem, addr and size
AsMemory(device) ==
    /\ ~AsDevice(device)
    /\ Has(device.dest, "mem") /\ Has(device.dest, "addr") /\ Has(device.dest, "size")

\* the broadcast entries of domain k named n: a in access, m in memory, none in sram
BroadcastCounts(k, n, a, m) ==
    /\ Count(BroadcastEntries(k, "access"), n) = a
    /\ Count(BroadcastEntries(k, "memory"), n) = m
    /\ Count(BroadcastEntries(k, "sram"), n) = 0

Rank(event) ==
    CASE event = "catalog" -> 0
      [] event = "resolve" -> 1
      [] event = "increment" -> 2
      [] event = "append" -> 3
      [] event = "write" -> 4

\* C5: the catalog is built first and once; no domain is resolved after a
\* refcount was incremented, no refcount is incremented after a broadcast
\* append, and nothing happens after the write; the catalog does not change
\* while domains are resolved and no domain changes while references are
\* counted.
C5_PhaseOrdering ==
    /\ \A i, j \in 1..Len(log) : i < j => Rank(log[i]) <= Rank(log[j])
    /\ \A i \in 1..Len(log) : log[i] = "catalog" <=> i = 1
    /\ written # <<>> => (log[Len(log)] = "write" /\ written = <<domains_list>>)
    /\ pc = "resolve" => \A i \in 1..Len(device_dict) : device_dict[i].refcount = 0
    /\ pc = "count" => domains_list = built

\* a run with every kind of event, written
C5_Witness ==
    /\ pc = "done"
    /\ \A e \in {"catalog", "resolve", "increment", "append", "write"} :
          \E i \in 1..Len(log) : log[i] = e
    /\ Len(domains_list) >= 2

\* C7: with a domain that has no access list the broadcast pass still goes
\* through every item of the catalog: no round of it fails.
C7_AccessLessLocalized ==
    [][(pc = "broadcast" /\ \E k \in 1..Len(domains_list) : ~Has(domains_list[k], "access"))
         => pc' # "crashed"]_vars

\* C11: the tree is handed to the writer at most once, and only in a run
\* that went through the catalog, every subsystem, the counting pass and
\* every item of the broadcast pass; a run that stopped (the specification
\* file did not resolve, or a later phase raised or left the process) has
\* written nothing, whatever it had built by then.
C11_WrittenOnceAtEnd ==
    /\ Len(written) <= 1
    /\ written # <<>> =>
          /\ pc = "done"
          /\ args.resolves
          /\ DictKeys(device_dict) = DictKeys(device_collect(json_tree))
          /\ Len(SelectSeq(log, LAMBDA e : e = "resolve")) = Len(domains_list)
          /\ Len(domains_list) >= Len(json_tree.subsystems)
          /\ written[1] = domains_list
    /\ pc \in {"crashed", "exited"} => written = <<>>
    /\ pc = "done" => Len(written) = 1

\* a run that stops in the broadcast pass with entries already appended
C11_Witness ==
    /\ pc = "crashed"
    /\ domains_list # built
    /\ built # <<>>
    /\ written = <<>>

\* whether a hardware node sits at the address of the destination record d
Matched(d, hw) == Has(d, "addr") /\ HasAddrNode(hw, d.addr)

\* the access entries of the matched records of dests, in order
RECURSIVE MatchedEntries(_, _, _)
MatchedEntries(dests, flag_mapping, hw) ==
    IF dests = <<>> THEN <<>>
    ELSE (IF Matched(Head(dests), hw)
          THEN <<AccessEntry(addr_node(hw, Head(dests).addr), Head(dests).name, flag_mapping)>>
          ELSE <<>>)
         \o MatchedEntries(Tail(dests), flag_mapping, hw)

\* the destination records a device entry of the access list resolves to
ResolvedDests(access, jt) ==
    IF ~HasDefs(access, jt) THEN <<>>
    ELSE LET defs == DefsOf(access, jt)
         IN  IF Has(defs, "type") \/ ~Has(defs, "destinations") \/ ~Has(defs, "name") THEN <<>>
             ELSE isospec_device_destination(defs.destinations, jt)

RECURSIVE SpecifiedAccess(_, _, _)
SpecifiedAccess(access_node, hw, jt) ==
    IF access_node = <<>> THEN <<>>
    ELSE MatchedEntries(ResolvedDests(Head(access_node), jt),
                        IF HasDefs(Head(access_node), jt)
                        THEN isospec_device_flags(DefsOf(Head(access_node), jt))
                        ELSE EmptyDict,
                        hw)
         \o SpecifiedAccess(Tail(access_node), hw, jt)

\* the records of every entry of the list, one after the other
RECURSIVE AllResolvedDests(_, _)
AllResolvedDests(access_node, jt) ==
    IF access_node = <<>> THEN <<>>
    ELSE ResolvedDests(Head(access_node), jt) \o AllResolvedDests(Tail(access_node), jt)

\* C13: the access list holds exactly one entry {dev, spec_name, label, flags}
\* for every destination with a hardware node at its address, in order,
\* whether or not the record carries mem; every memory or sram entry belongs
\* to a destination without such a node that its mem flag or its name
\* classifies as memory; a destination that is neither leaves no entry.
C13_OrderedClassification ==
    (pc = "returned" /\ ret.st = "ok") =>
        /\ ret.lists.access = SpecifiedAccess(args, sdt, json_tree)
        /\ \A e \in { ret.lists.memory[i] : i \in 1..Len(ret.lists.memory) }
                    \cup { ret.lists.sram[i] : i \in 1..Len(ret.lists.sram) } :
              \E i \in 1..Len(AllResolvedDests(args, json_tree)) :
                  LET d == AllResolvedDests(args, json_tree)[i]
                  IN  d.name = e.spec_name /\ ~Matched(d, sdt) /\ MemFound(d)

\* C14: for a destination whose name the pattern map gives the kind sram,
\* with an address and a size, the call returns: without a hardware node at
\* the address the one entry {dev, spec_name, start, size} with the address
\* and size of the record, and with such a node nothing.
C14_SramResolution ==
    (/\ pc = "returned"
     /\ isospec_memory_type(args.name) = "sram"
     /\ Has(args, "addr") /\ Has(args, "size")) =>
        /\ ret.st = "ok"
        /\ ret.val = IF HasAddrNode(sdt, args.addr) THEN <<>>
                     ELSE <<MemEntry(args.name, args.addr, args.size)>>

\* the first entry named n of the access list of the default subsystem, as a
\* list of one entry; none when there is no such entry or when it is itself
\* an indirection
SpecifiedDefault(jt, n) ==
    IF ~Has(jt, "defaults") THEN <<>>
    ELSE LET hits == { i \in 1..Len(jt.defaults) :
                         Has(jt.defaults[i], "name") /\ jt.defaults[i].name = n }
         IN  IF hits = {} THEN <<>>
             ELSE LET d == jt.defaults[CHOOSE i \in hits : \A j \in hits : i <= j]
                  IN  IF Has(d, "same_as_default") THEN <<>> ELSE <<d>>

\* the access list with every indirection replaced by what it stands for
RECURSIVE Inlined(_, _)
Inlined(access_node, jt) ==
    IF access_node = <<>> THEN <<>>
    ELSE (IF Has(Head(access_node), "same_as_default")
          THEN SpecifiedDefault(jt, Head(access_node).same_as_default)
          ELSE <<Head(access_node)>>)
         \o Inlined(Tail(access_node), jt)

\* C16: the four lists are those of the access list in which every entry
\* {same_as_default: n} is replaced by the first entry named n of the default
\* subsystem's access list, and dropped when there is none or when that
\* entry is itself an indirection.
C16_SameAsDefault ==
    pc = "returned" => ret = isospec_process_access(Inlined(args, json_tree), sdt, json_tree)

(***************************************************************************)
(* Runs of process_domain alone                                            *)
(***************************************************************************)
MaxEntries == 2

E_OCM0 == [name |-> "ocm", destinations |-> <<N_OCM0>>]

DomainEntries == { E_uart0, E_cpus, E_DDR0, E_OCM0, E_spi0 }

IsoNodes ==
    { [name |-> "A", id |-> 1] }
    \cup { [name |-> "A", id |-> 1, access |-> q] : q \in SeqsUpTo(DomainEntries, MaxEntries) }

InitDomain ==
    /\ pc = "call"
    /\ IdleRun
    /\ args \in IsoNodes
    /\ sdt \in AccessSdts
    /\ json_tree = [cells |-> <<AccessCell>>, subsystems |-> <<>>]
    /\ ret = NoRet

\* lines 866-869
CallProcessDomain ==
    /\ pc = "call"
    /\ pc' = "returned"
    /\ ret' = process_domain(domains_tree_add_domain(args.name, "", args.id), args, json_tree, sdt)
    /\ UNCHANGED <<sdt, json_tree, args, run>>

NextDomain == CallProcessDomain

SpecDomain == InitDomain /\ [][NextDomain]_vars

\* the lists the access list of the subsystem resolves to
ResolvedLists == isospec_process_access(args.access, sdt, json_tree).lists

\* the property t is attached exactly when its list is not empty
AttachedIfNonEmpty(t) == Has(ret.node, t) <=> ResolvedLists[t] # <<>>

\* C17 as amended: the node of a subsystem with an access list carries cpus,
\* memory and sram exactly when the resolved list is not empty, carries
\* access always, and every property it carries holds the resolved list.
C17_ListAttachment ==
    (pc = "returned" /\ ret.st = "ok" /\ Has(args, "access")) =>
        /\ Has(ret.node, "access")
        /\ \A t \in {"cpus", "memory", "sram"} : AttachedIfNonEmpty(t)
        /\ \A t \in {"access", "cpus", "memory", "sram"} :
              Has(ret.node, t) => ret.node[t] = dumps(ResolvedLists[t])

\* a node with an empty access list attached next to a memory list, and
\* neither cpus nor sram
C17_Witness ==
    /\ pc = "returned" /\ ret.st = "ok" /\ Has(args, "access")
    /\ Has(ret.node, "access") /\ loads(ret.node.access) = <<>>
    /\ Has(ret.node, "memory") /\ loads(ret.node.memory) # <<>>
    /\ ~Has(ret.node, "cpus") /\ ~Has(ret.node, "sram")

\* C17 as stated: each of access, cpus, memory and sram is attached exactly
\* when the resolved list is not empty.
C17_AsStated ==
    (pc = "returned" /\ ret.st = "ok" /\ Has(args, "access")) =>
        \A t \in {"access", "cpus", "memory", "sram"} : AttachedIfNonEmpty(t)

\* what the specification makes of one subsystem: its own domain and one
\* sub-domain for each nested subsystem, each with the node it is resolved
\* from
SpecifiedDomains(iso_node) ==
    <<[name |-> iso_node.name, parent |-> "", id |-> iso_node.id, from |-> iso_node]>>
    \o (IF ~Has(iso_node, "domains") THEN <<>>
        ELSE [i \in 1..Len(iso_node.domains) |->
                [name   |-> iso_node.domains[i].name,
                 parent |-> iso_node.name,
                 id     |-> IF Has(iso_node.domains[i], "id")
                            THEN iso_node.domains[i].id ELSE iso_node.id,
                 from   |-> iso_node.domains[i]]])

RECURSIVE AllSpecifiedDomains(_)
AllSpecifiedDomains(subsystems) ==
    IF subsystems = <<>> THEN <<>>
    ELSE SpecifiedDomains(Head(subsystems)) \o AllSpecifiedDomains(Tail(subsystems))

\* the entries named n in the access, memory and sram lists of one domain
ReferencesIn(domain, n) ==
    Count(ListOf(domain, "access"), n) + Count(ListOf(domain, "memory"), n)
    + Count(ListOf(domain, "sram"), n)

\* C18: once the counting pass is over the domains are, subsystem by
\* subsystem, the subsystem's own and one sub-domain per nested subsystem,
\* under its parent, with its own id or else the parent's and with the access
\* list its own access list resolves to; every entry of a sub-domain's lists
\* that names a catalog entry is counted in its refcount; and once the
\* broadcast pass is over a sub-domain has the broadcast entries the first
\* domain has.
C18_NestedDomains ==
    /\ pc \in {"broadcast", "write", "done"} =>
          LET want == AllSpecifiedDomains(json_tree.subsystems)
          IN  /\ Len(built) = Len(want)
              /\ \A k \in 1..Len(built) :
                    /\ built[k].name = want[k].name
                    /\ built[k].parent = want[k].parent
                    /\ built[k].id = want[k].id
                    /\ Has(want[k].from, "access") =>
                          ListOf(built[k], "access") =
                              isospec_process_access(want[k].from.access, sdt, json_tree).lists.access
                    /\ built[k].parent # "" =>
                          \A i \in 1..Len(device_dict) :
                              device_dict[i].refcount >= ReferencesIn(built[k], device_dict[i].name)
    /\ pc \in {"write", "done"} =>
          \A k \in 1..Len(domains_list) : \A t \in 1..Len(RefLists) :
              BroadcastEntries(k, RefLists[t]) = BroadcastEntries(1, RefLists[t])

(***************************************************************************)
(* Runs of isospec_device_flags alone                                      *)
(***************************************************************************)
FlagNames == {"requested", "secure", "coherent"}

\* every dict over a subset of the keys with values in vals
DictsOver(keys, vals) == UNION { [ks -> vals] : ks \in SUBSET keys }

FlagChildren ==
    { <<>>,
      <<[name |-> "flags", props |-> <<[name |-> "requested", value |-> "1"]>>]>>,
      <<[name |-> "other", props |-> <<[name |-> "secure", value |-> "1"]>>],
        [name |-> "flags", props |-> <<[name |-> "requested", value |-> ""],
                                       [name |-> "coherent", value |-> "1"]>>]>> }

\* dicts with and without flags, tree nodes, and a value that is neither
FlagShapes ==
    { [kind |-> "dict", val |-> [name |-> "dev"]] }
    \cup { [kind |-> "dict", val |-> [name |-> "dev", flags |-> f]] :
             f \in DictsOver(FlagNames, BOOLEAN) }
    \cup { [kind |-> "node", val |-> [name |-> "dev", children |-> c]] : c \in FlagChildren }
    \cup { [kind |-> "other", val |-> EmptyDict] }

InitFlags ==
    /\ pc = "call"
    /\ IdleRun
    /\ args \in FlagShapes
    /\ sdt \in { NoSdt, RunSdt }
    /\ json_tree \in AccessJsons
    /\ ret = NoRet

CallDeviceFlags ==
    /\ pc = "call"
    /\ pc' = "returned"
    /\ ret' = DeviceFlagsOf(args)
    /\ UNCHANGED <<sdt, json_tree, args, run>>

NextFlags == CallDeviceFlags

SpecFlags == InitFlags /\ [][NextFlags]_vars

\* the names and values of the flags of a value, whatever its shape
GivenFlags(shape) ==
    IF shape.kind = "dict"
    THEN IF Has(shape.val, "flags")
         THEN { <<f, shape.val.flags[f]>> : f \in DOMAIN shape.val.flags }
         ELSE {}
    ELSE IF shape.kind = "node"
    THEN UNION { { <<c.props[i].name, c.props[i].value # "">> : i \in 1..Len(c.props) } :
                 c \in { shape.val.children[k] : k \in { j \in 1..Len(shape.val.children) :
                                                         shape.val.children[j].name = "flags" } } }
    ELSE {}

\* C19: the call returns for a value of any shape; what it returns maps
\* exactly the flags given with a true or non-empty value to true, and is
\* empty for a value that is neither a dict nor a tree node.
C19_DeviceFlagsTotal ==
    pc = "returned" =>
        /\ ret.st = "ok"
        /\ DOMAIN ret.val = { g[1] : g \in { h \in GivenFlags(args) : h[2] } }
        /\ \A f \in DOMAIN ret.val : ret.val[f] = TRUE

\* the names and destination records of the catalog, in order
NamesAndDests(dict) == [i \in 1..Len(dict) |-> <<dict[i].name, dict[i].dest>>]

IsPrefix(a, b) == Len(a) <= Len(b) /\ SubSeq(b, 1, Len(a)) = a

NodeLists == {"access", "cpus", "memory", "sram"}

\* the node is the node old with entries appended to its lists at most
Extends(old, node) ==
    /\ node.name = old.name /\ node.parent = old.parent /\ node.id = old.id
    /\ \A t \in NodeLists : IsPrefix(ListOf(old, t), ListOf(node, t))

\* C20: no step after device_collect changes the names or the destination
\* records of the catalog; a step outside the counting pass leaves the whole
\* catalog as it is; a round of the counting pass adds to each refcount at
\* most one for every entry of that name it reads and changes no domain; and
\* from the end of the subsystem loop on, every domain is the domain as it was
\* built with entries appended to its lists at most.
C20_FrameConditions ==
    [][/\ pc \notin {"load", "collect"} =>
             NamesAndDests(device_dict') = NamesAndDests(device_dict)
       /\ pc \notin {"load", "collect", "count"} => device_dict' = device_dict
       /\ pc = "count" =>
             /\ domains_list' = domains_list
             /\ \A i \in 1..Len(device_dict) :
                   /\ device_dict'[i].refcount >= device_dict[i].refcount
                   /\ device_dict'[i].refcount - device_dict[i].refcount
                         <= ReferencesIn(CountedNode(domains_list, idx, domain_node),
                                         device_dict[i].name)
       /\ pc \in {"count", "broadcast", "write"} =>
             /\ Len(domains_list') = Len(built)
             /\ \A k \in 1..Len(built) : Extends(built[k], domains_list'[k])
      ]_vars

\* a run in which a refcount went up by two and a domain with resolved
\* entries gained a broadcast entry
C20_Witness ==
    /\ pc = "done"
    /\ \E i \in 1..Len(device_dict) : device_dict[i].refcount >= 2
    /\ \E k \in 1..Len(built) :
          /\ ListOf(built[k], "access") # <<>>
          /\ Len(ListOf(domains_list[k], "access")) > Len(ListOf(built[k], "access"))

\* the records of the call's destinations that carry the name of the entry e
SourcesOf(e) ==
    { AllResolvedDests(args, json_tree)[i] :
        i \in { j \in 1..Len(AllResolvedDests(args, json_tree)) :
                  AllResolvedDests(args, json_tree)[j].name = e.spec_name } }

\* every entry of the sram list carries the addr and the size of a record of
\* its own name
SramFromSpec ==
    \A i \in 1..Len(ret.lists.sram) :
        \E d \in SourcesOf(ret.lists.sram[i]) :
            /\ Has(d, "addr") /\ Has(d, "size")
            /\ ret.lists.sram[i].start = d.addr
            /\ ret.lists.sram[i].size = d.size

\* every entry of the memory list belongs to a record of kind memory
MemoryFromKindMemory ==
    \A i \in 1..Len(ret.lists.memory) :
        \E d \in SourcesOf(ret.lists.memory[i]) : KindMemory(d)

\* C21: after resolution every entry of the sram list has the start and size
\* that its own destination record gives as addr and size, never those of a
\* hardware memory range, also for a record with the mem flag and a name of
\* the sram pattern while the hardware tree has memory nodes; and every
\* entry of the memory list comes from a destination of kind memory.
C21_SramListFromSpec ==
    pc = "returned" => (SramFromSpec /\ MemoryFromKindMemory)

\* str(n) for n >= 0
RECURSIVE DecDigits(_)
DecDigits(n) ==
    IF n < 10 THEN <<DecChars[n + 1]>>
    ELSE DecDigits(n \div 10) \o <<DecChars[(n % 10) + 1]>>

\* the digits a name ends with
TrailingDigits(s) ==
    LET b == CHOOSE i \in 1..(Len(s) + 1) :
                 /\ \A j \in i..Len(s) : IsDigit(s[j])
                 /\ (i = 1 \/ ~IsDigit(s[i - 1]))
    IN  SubSeq(s, b, Len(s))

HasDigit(s) == \E i \in 1..Len(s) : IsDigit(s[i])

\* the mask the specification gives a recognized name over its matched nodes
SpecifiedMask(cpu_name, nodes) ==
    IF ~HasDigit(cpu_name) THEN 15
    ELSE LET i == ParseDec(TrailingDigits(cpu_name))
         IN  IF \E k \in 1..Len(nodes) : nodes[k].name = CpuAt \o DecDigits(i)
             THEN 2 ^ i ELSE 0

Recognized(cpu_name) == CpuMapOf(cpu_name) # NoMap

\* C9: every entry emitted for a recognized SMID name has cpumask 0xf when the
\* name has no digits, 1<<i when a matched node is literally named cpu@i (i the
\* trailing integer of the name), and 0 when no matched node has that name.
C9_CpuMaskArithmetic ==
    (pc = "returned" /\ ret.st = "ok" /\ ~ret.none) =>
        \A k \in 1..Len(ret.val) :
            LET e == ret.val[k]
            IN  Recognized(e.spec_name) =>
                    e.cpumask = Hex(SpecifiedMask(e.spec_name,
                                      cnodes(sdt, CpuMapOf(e.spec_name).compatible)))

\* the exception levels the specification gives a recognized name: bits 0
\* and 1 for the mode "el", else the default of its entry of the pattern map
SpecifiedEl(cpu_name, cpu_flags) ==
    IF Has(cpu_flags, "mode") /\ cpu_flags.mode = "el" THEN 3
    ELSE CpuMapOf(cpu_name).el

\* C15: every entry emitted for a recognized name has mode.secure equal to
\* flags.secure (false when absent) and mode.el equal to 0x3 for the mode
\* "el" and to the default of the matched map entry in every other case, the
\* el field being left out exactly when that default is absent.
C15_CpuModeMask ==
    (pc = "returned" /\ ret.st = "ok" /\ ~ret.none) =>
        \A k \in 1..Len(ret.val) :
            LET e  == ret.val[k]
                el == SpecifiedEl(e.spec_name, CpuFlags(args))
            IN  Recognized(e.spec_name) =>
                    e.mode = IF el # 0
                             THEN [secure |-> SecureOf(CpuFlags(args)), el |-> Hex(el)]
                             ELSE [secure |-> SecureOf(CpuFlags(args))]

\* C10: a name that matches no pattern contributes no entry, and every
\* recognized name of the same list whose cluster exists contributes its own.
C10_UnrecognizedSkipped ==
    (pc = "returned" /\ \A n \in 1..Len(sdt.cpus) : Has(sdt.cpus[n], "parent")) =>
        /\ \A k \in 1..Len(Contributed(ret)) : Recognized(Contributed(ret)[k].spec_name)
        /\ \A k \in 1..Len(args.SMIDs) :
              (/\ Recognized(args.SMIDs[k])
               /\ cnodes(sdt, CpuMapOf(args.SMIDs[k]).compatible) # <<>>)
              => \E j \in 1..Len(Contributed(ret)) :
                     Contributed(ret)[j].spec_name = args.SMIDs[k]

====
